---- MODULE Spec2Model ----
(***************************************************************************)
(* Detection webs of a ZX diagram (rust_web/python/detection_webs.py).     *)
(*                                                                         *)
(* A diagram is a record [nv, ty, E]: its vertices are 0..nv-1 (pyzx hands *)
(* out identifiers in increasing order and the program never removes a    *)
(* vertex), ty gives each vertex its type and E is the set of edges, each *)
(* an unordered pair {u, v}.  Vertex positions (row, qubit) only place an *)
(* inserted vertex on the drawing and are left out.                        *)
(***************************************************************************)
EXTENDS Integers, Sequences, FiniteSets, TLC

\* Bound of the diagrams explored: the number of vertices of the input diagram.
MaxV == 5

\* pyzx vertex types.
BOUNDARY == 0
Z == 1
X == 2

VARIABLES
    pc,          \* position in main / get_detection_webs
    err,         \* the exception that ended the run, "none" otherwise
    g_in,        \* the diagram as handed to get_detection_webs
    oldg,        \* the diagram, mutated in place by make_rg
    g,           \* make_rg: the current clone of oldg
    inputs,      \* g.inputs()
    outputs,     \* g.outputs()
    ni,          \* make_rg: position of the outer loop in the first clone's vertices
    node,        \* make_rg: the vertex of the outer loop
    nbrs,        \* make_rg: neighbours of node still to visit (snapshot)
    new_order,   \* get_detection_webs: the ordering
    index_map,   \* get_detection_webs: position -> vertex
    md_no_output,\* get_detection_webs: the augmented matrix, a sequence of rows
    kernel,      \* the nullspace of md_no_output
    npws,        \* number of webs appended to pws
    v,           \* get_pw: the firing vector
    red_edges,   \* get_pw: edges marked for 'Z'
    green_edges  \* get_pw: edges marked for 'X'

vars == <<pc, err, g_in, oldg, g, inputs, outputs, ni, node, nbrs, new_order,
          index_map, md_no_output, kernel, npws, v, red_edges, green_edges>>

-----------------------------------------------------------------------------
(* Diagrams *)

Vertices(G) == 0 .. (G.nv - 1)

Neighbors(G, x) == {y \in Vertices(G) : {x, y} \in G.E}

SeqToSet(s) == {s[k] : k \in 1 .. Len(s)}

RECURSIVE SortedSeq(_)
\* the elements of a finite set of integers in increasing order
SortedSeq(S) ==
    IF S = {} THEN <<>>
    ELSE LET lo == CHOOSE x \in S : \A y \in S : x <= y
         IN  <<lo>> \o SortedSeq(S \ {lo})

\* The input diagrams are connected and drawn along a line: an edge joins two
\* vertices that are next to each other or have one vertex between them.
Pairs(n) == {e \in SUBSET (0 .. (n - 1)) :
                /\ Cardinality(e) = 2
                /\ \A a, c \in e : a - c <= 2}

\* load_graph adds the wire (boundary) vertices first, then the node vertices
Colourings(n) ==
    {t \in [0 .. (n - 1) -> {BOUNDARY, Z, X}] :
        \A a, c \in 0 .. (n - 1) : (a < c /\ t[c] = BOUNDARY) => t[a] = BOUNDARY}

RECURSIVE Reach(_, _, _)
\* the vertices joined to S by a path of at most k edges of e
Reach(S, e, k) ==
    IF k = 0 THEN S
    ELSE Reach(S \cup {y \in UNION e : \E x \in S : {x, y} \in e}, e, k - 1)

\* a boundary vertex is the end of one wire at most
EdgeSets(n, t) ==
    {e \in SUBSET Pairs(n) :
        /\ \A a \in 0 .. (n - 1) :
              t[a] = BOUNDARY => Cardinality({x \in e : a \in x}) <= 1
        /\ Reach({0}, e, n) = 0 .. (n - 1)}

Diagrams ==
    UNION {UNION {{[nv |-> n, ty |-> t, E |-> e] : e \in EdgeSets(n, t)} :
                  t \in Colourings(n)} : n \in 1 .. MaxV}

\* set_inputs / set_outputs: every boundary vertex is an input, an output or neither
Roles(G) == [{a \in Vertices(G) : G.ty[a] = BOUNDARY} -> {"in", "out", "none"}]

-----------------------------------------------------------------------------
(* make_rg *)

\* Subdivide with the inserted vertex given the type of the vertices it separates
SubdivideSameType(G, a, nb) ==
    LET w == G.nv
    IN  [nv |-> G.nv + 1,
         ty |-> [x \in 0 .. G.nv |-> IF x = w THEN G.ty[a] ELSE G.ty[x]],
         E  |-> (G.E \ {{nb, a}}) \cup {{a, w}, {w, nb}}]

\* Subdivide without the removal of the subdivided edge
SubdivideKeepEdge(G, a, nb) ==
    LET w == G.nv
    IN  [nv |-> G.nv + 1,
         ty |-> [x \in 0 .. G.nv |-> IF x = w THEN (G.ty[a] % 2) + 1 ELSE G.ty[x]],
         E  |-> G.E \cup {{a, w}, {w, nb}}]

\* lines 76-79: remove the edge, add a vertex of the other type, add the two edges
Subdivide(G, a, nb) ==
    LET w == G.nv
    IN  [nv |-> G.nv + 1,
         ty |-> [x \in 0 .. G.nv |-> IF x = w THEN (G.ty[a] % 2) + 1 ELSE G.ty[x]],
         E  |-> (G.E \ {{nb, a}}) \cup {{a, w}, {w, nb}}]

CallMakeRg ==
    /\ pc = "start"
    /\ pc' = "make_rg"
    /\ g' = oldg
    /\ ni' = 0
    /\ nbrs' = {}
    /\ UNCHANGED <<err, g_in, oldg, inputs, outputs, node, new_order, index_map,
                   md_no_output, kernel, npws, v, red_edges, green_edges>>

\* for node in g.vertices(): the iterator is the first clone's, g_in's vertices
RgNextNode ==
    /\ pc = "make_rg"
    /\ nbrs = {}
    /\ ni < g_in.nv
    /\ node' = ni
    /\ ni' = ni + 1
    /\ nbrs' = Neighbors(g, ni)
    /\ UNCHANGED <<pc, err, g_in, oldg, g, inputs, outputs, new_order, index_map,
                   md_no_output, kernel, npws, v, red_edges, green_edges>>

\* one turn of: for neighbor in g.neighbors(node)
RgNeighbor ==
    /\ pc = "make_rg"
    /\ nbrs # {}
    /\ \E nb \in nbrs :
          /\ nbrs' = nbrs \ {nb}
          /\ IF g.ty[nb] = g.ty[node]
             THEN /\ oldg' = Subdivide(oldg, node, nb)
                  /\ g' = oldg'
             ELSE UNCHANGED <<oldg, g>>
    /\ UNCHANGED <<pc, err, g_in, inputs, outputs, ni, node, new_order, index_map,
                   md_no_output, kernel, npws, v, red_edges, green_edges>>

RgReturn ==
    /\ pc = "make_rg"
    /\ nbrs = {}
    /\ ni = g_in.nv
    /\ pc' = "ordered_nodes"
    /\ UNCHANGED <<err, g_in, oldg, g, inputs, outputs, ni, node, nbrs, new_order,
                   index_map, md_no_output, kernel, npws, v, red_edges, green_edges>>

-----------------------------------------------------------------------------
(* ordered_nodes *)

RECURSIVE IndexOf(_, _, _)
\* list.index(item), 0-based, from position k on
IndexOf(s, item, k) == IF s[k] = item THEN k - 1 ELSE IndexOf(s, item, k + 1)

ordered_vertices(G, ins, outs) ==
    LET original == SortedSeq(Vertices(G))
        NotIO(x) == x \notin SeqToSet(ins) /\ x \notin SeqToSet(outs)
        outputs_ == SelectSeq(original, NotIO)
        Typed(x) == G.ty[x] # BOUNDARY /\ x \notin SeqToSet(outputs_)
    IN  outputs_ \o SelectSeq(original, Typed)

ordered_index_map(G, vertices) ==
    LET items == {x \in Vertices(G) : x \in SeqToSet(vertices)}
    IN  [k \in {IndexOf(vertices, item, 1) : item \in items} |-> vertices[k + 1]]

OrderedNodes ==
    /\ pc = "ordered_nodes"
    /\ new_order' = ordered_vertices(oldg, inputs, outputs)
    /\ index_map' = ordered_index_map(oldg, new_order')
    /\ pc' = "matrix"
    /\ UNCHANGED <<err, g_in, oldg, g, inputs, outputs, ni, node, nbrs,
                   md_no_output, kernel, npws, v, red_edges, green_edges>>

-----------------------------------------------------------------------------
(* get_detection_webs: the matrix *)

\* nx.to_numpy_array(ng, nodelist=new_order): 1 where the two vertices share an edge
Adjacency(G, order, i, j) == IF {order[i], order[j]} \in G.E THEN 1 ELSE 0

\* lines 96-99: np.hstack((np.vstack((I_n, zeroblock)), N)), row i of m rows
md_row(G, order, outs, i) ==
    [c \in 1 .. (outs + Len(order)) |->
        IF c <= outs THEN (IF c = i THEN 1 ELSE 0)
        ELSE Adjacency(G, order, i, c - outs)]

\* line 102: np.hstack((np.eye(2*outs), np.zeros((2*outs, cols - 2*outs)))), row r
no_output_row(cols, r) == [c \in 1 .. cols |-> IF c = r THEN 1 ELSE 0]

\* augmented with np.eye(outs) in place of np.eye(2*outs)
augmented_eye_outs(G, order, outs) ==
    [i \in 1 .. (Len(order) + 2 * outs) |->
        IF i <= Len(order) THEN md_row(G, order, outs, i)
        ELSE IF i - Len(order) <= outs
             THEN no_output_row(outs + Len(order), i - Len(order))
             ELSE [c \in 1 .. (outs + Len(order)) |-> 0]]

\* line 103: np.vstack((md.data, no_output))
augmented(G, order, outs) ==
    [i \in 1 .. (Len(order) + 2 * outs) |->
        IF i <= Len(order) THEN md_row(G, order, outs, i)
        ELSE no_output_row(outs + Len(order), i - Len(order))]

BuildMatrix ==
    /\ pc = "matrix"
    /\ LET outs == Len(inputs) + Len(outputs)
           m == Len(new_order)
       IN  IF \E k \in 1 .. m : new_order[k] \notin UNION oldg.E
           THEN \* line 95: a vertex of nodelist is not a node of ng
                /\ pc' = "error" /\ err' = "NetworkXError"
                /\ UNCHANGED md_no_output
           ELSE IF m - outs < 0
           THEN \* line 97 (and 102): np.zeros of a negative dimension
                /\ pc' = "error" /\ err' = "ValueError"
                /\ UNCHANGED md_no_output
           ELSE /\ pc' = "nullspace"
                /\ md_no_output' = augmented(oldg, new_order, outs)
                /\ UNCHANGED err
    /\ UNCHANGED <<g_in, oldg, g, inputs, outputs, ni, node, nbrs, new_order,
                   index_map, kernel, npws, v, red_edges, green_edges>>

-----------------------------------------------------------------------------
(* The GF(2) collaborator, Mat2.  Its nullspace is a maximal set of linearly  *)
(* independent vectors x with M.x = 0, in an order of its own: kernel holds  *)
(* every such x, and a basis holds Dim(kernel) of them, any nonzero one      *)
(* among them.                                                               *)

\* number of columns of the augmented matrix
Cols == Len(new_order) + Len(inputs) + Len(outputs)

\* row . x over GF(2); x is indexed from 0 as a numpy vector is
DotIsZero(row, x) ==
    Cardinality({c \in 1 .. Len(row) : row[c] = 1 /\ x[c - 1] = 1}) % 2 = 0

\* every x with M.x = 0
NullVectors(M, cols) ==
    {x \in [0 .. (cols - 1) -> {0, 1}] :
        \A k \in 1 .. Len(M) : DotIsZero(M[Len(M) + 1 - k], x)}

ZeroVector(cols) == [c \in 0 .. (cols - 1) |-> 0]

RECURSIVE Log2(_)
Log2(k) == IF k <= 1 THEN 0 ELSE 1 + Log2(k \div 2)

\* the number of vectors of a basis of K
Dim(K) == Log2(Cardinality(K))

Nullspace ==
    /\ pc = "nullspace"
    /\ kernel' = NullVectors(md_no_output, Cols)
    /\ IF kernel' = {ZeroVector(Cols)}
       THEN \* line 104: np.hstack of an empty list
            pc' = "error" /\ err' = "ValueError"
       ELSE pc' = "webs" /\ UNCHANGED err
    /\ npws' = 0
    /\ UNCHANGED <<g_in, oldg, g, inputs, outputs, ni, node, nbrs, new_order,
                   index_map, md_no_output, v, red_edges, green_edges>>

-----------------------------------------------------------------------------
(* get_pw *)

\* np.nonzero(v)[0]
Nonzero(x) == {i \in DOMAIN x : x[i] # 0}

\* lines 45-53: the edges at the firing vertices of type ty
MarkedEdges(G, imap, x, outs, ty) ==
    {e \in G.E : \E i \in Nonzero(x) :
        /\ G.ty[imap[i - outs]] = ty
        /\ imap[i - outs] \in e}

\* one turn of: for v in mdnons.T, with v any vector a basis can hold
GetPw ==
    /\ pc = "webs"
    /\ npws < Dim(kernel)
    /\ LET outs == Len(inputs) + Len(outputs)
       IN  \E x \in kernel \ {ZeroVector(Cols)} :
              /\ v' = x
              /\ IF \E i \in Nonzero(x) : (i - outs) \notin DOMAIN index_map
                 THEN \* line 46: index_map has no such key
                      /\ pc' = "error" /\ err' = "KeyError"
                      /\ UNCHANGED <<red_edges, green_edges, npws>>
                 ELSE /\ green_edges' = MarkedEdges(oldg, index_map, x, outs, Z)
                      /\ red_edges' = MarkedEdges(oldg, index_map, x, outs, X)
                      /\ npws' = npws + 1
                      /\ UNCHANGED <<pc, err>>
    /\ UNCHANGED <<g_in, oldg, g, inputs, outputs, ni, node, nbrs, new_order,
                   index_map, md_no_output, kernel>>

Return ==
    /\ pc = "webs"
    /\ npws = Dim(kernel)
    /\ pc' = "done"
    /\ UNCHANGED <<err, g_in, oldg, g, inputs, outputs, ni, node, nbrs, new_order,
                   index_map, md_no_output, kernel, npws, v, red_edges, green_edges>>

-----------------------------------------------------------------------------
Init ==
    /\ pc = "start"
    /\ err = "none"
    /\ g_in \in Diagrams
    /\ oldg = g_in
    /\ g = g_in
    /\ \E r \in Roles(g_in) :
          /\ inputs = SortedSeq({a \in DOMAIN r : r[a] = "in"})
          /\ outputs = SortedSeq({a \in DOMAIN r : r[a] = "out"})
    /\ ni = 0
    /\ node = 0
    /\ nbrs = {}
    /\ new_order = <<>>
    /\ index_map = <<>>
    /\ md_no_output = <<>>
    /\ kernel = {}
    /\ npws = 0
    /\ v = <<>>
    /\ red_edges = {}
    /\ green_edges = {}

Next ==
    \/ CallMakeRg
    \/ RgNextNode
    \/ RgNeighbor
    \/ RgReturn
    \/ OrderedNodes
    \/ BuildMatrix
    \/ Nullspace
    \/ GetPw
    \/ Return

Spec == Init /\ [][Next]_vars

-----------------------------------------------------------------------------
(* Properties *)

\* b = |inputs| + |outputs|
b == Len(inputs) + Len(outputs)

\* make_rg has returned
AfterRg == pc \in {"ordered_nodes", "matrix", "nullspace", "webs", "done", "error"}

\* the edges of G whose two ends have the same type
SameTypeEdges(G) == {e \in G.E : \A x, y \in e : G.ty[x] = G.ty[y]}

\* the edges of G between two non-boundary vertices of the same type
SameColourEdges(G) == {e \in SameTypeEdges(G) : \A x \in e : G.ty[x] # BOUNDARY}

RGForm(G) == SameColourEdges(G) = {}

\* C1: after one call of make_rg no edge joins two non-boundary vertices of
\* the same colour.
C1_RGForm == AfterRg => RGForm(oldg)

\* C1 witness: make_rg has returned on a diagram with a path of three vertices
\* of one colour, both of whose edges it subdivided.
C1_Witness ==
    /\ pc = "ordered_nodes"
    /\ \E e1, e2 \in SameColourEdges(g_in) : e1 # e2 /\ e1 \cap e2 # {}
    /\ oldg.nv >= g_in.nv + 2
    /\ RGForm(oldg)

\* the vertices make_rg has inserted so far
Inserted == oldg.nv - g_in.nv

\* what is left of the two loops of make_rg: the vertices still to visit, each
\* with fewer neighbours than the diagram can ever have vertices, and the
\* neighbours still to visit of the current one
Rank ==
    IF pc = "make_rg"
    THEN 1 + (g_in.nv - ni) * (g_in.nv + Cardinality(g_in.E) + 1) + Cardinality(nbrs)
    ELSE 0

\* every inserted vertex differs in type from each of its neighbours
InsertedDiffer(G) ==
    \A w \in g_in.nv .. (G.nv - 1) : \A y \in Neighbors(G, w) : G.ty[y] # G.ty[w]

\* C9: make_rg terminates: every step of its loops lowers Rank, it visits
\* vertices of the input diagram only, an inserted vertex differs in colour
\* from its neighbours, and it inserts at most one vertex for each edge of the
\* input diagram whose ends have the same colour.
C9_Terminates ==
    [][pc = "make_rg" =>
         /\ Rank' < Rank
         /\ node' < g_in.nv
         /\ InsertedDiffer(oldg')
         /\ oldg'.nv - g_in.nv <= Cardinality(SameTypeEdges(g_in))]_vars

\* C9 witness: make_rg has returned after inserting one vertex for each of at
\* least two same-coloured edges.
C9_Witness ==
    /\ pc = "ordered_nodes"
    /\ Inserted >= 2
    /\ Inserted = Cardinality(SameTypeEdges(g_in))

\* C8 as stated: make_rg leaves every edge with a boundary end or with ends of
\* different colours in place, and the type of every vertex of the input.
C8_Original ==
    AfterRg =>
        /\ \A e \in g_in.E : e \notin SameColourEdges(g_in) => e \in oldg.E
        /\ \A x \in Vertices(g_in) : oldg.ty[x] = g_in.ty[x]

\* C7 as stated: make_rg on a diagram with no edge between two non-boundary
\* vertices of one colour changes nothing.
C7_Original == (AfterRg /\ RGForm(g_in)) => oldg = g_in

\* ordered_nodes has returned
AfterOrder == pc \in {"matrix", "nullspace", "webs", "done"}
                \/ (pc = "error" /\ err # "none")

\* C5 as stated: the ordering holds every vertex of the diagram exactly once
\* and index_map maps each position to the vertex at it.
C5_Original ==
    AfterOrder =>
        /\ \A x \in Vertices(oldg) :
              Cardinality({k \in 1 .. Len(new_order) : new_order[k] = x}) = 1
        /\ DOMAIN index_map = 0 .. (Len(new_order) - 1)
        /\ \A k \in DOMAIN index_map : index_map[k] = new_order[k + 1]

\* the augmented matrix exists
HasMatrix == pc \in {"nullspace", "webs", "done"}
               \/ (pc = "error" /\ md_no_output # <<>>)

\* C4 as stated: the augmented matrix has n + 2b rows and b + n columns,
\* n the number of vertices of the diagram.
C4_Original ==
    HasMatrix =>
        /\ Len(md_no_output) = oldg.nv + 2 * b
        /\ \A r \in 1 .. Len(md_no_output) : Len(md_no_output[r]) = b + oldg.nv

\* C6 as stated: with b = 0 no matrix is built and no web is returned.
C6_Original == b = 0 => (md_no_output = <<>> /\ pc \notin {"nullspace", "webs", "done"})

\* two boundary vertices, an input and an output, joined through one Z vertex
MinimalDiagram ==
    /\ g_in.nv = 3
    /\ g_in.ty = [x \in 0 .. 2 |-> IF x = 2 THEN Z ELSE BOUNDARY]
    /\ g_in.E = {{0, 2}, {1, 2}}
    /\ inputs = <<0>>
    /\ outputs = <<1>>

\* C3 as stated: on the minimal diagram get_detection_webs keeps one typed
\* vertex, ends without error, and every web is the two edges at that vertex,
\* both marked 'X'.
C3_Original ==
    MinimalDiagram =>
        /\ pc # "error"
        /\ AfterRg => Cardinality({x \in Vertices(oldg) : oldg.ty[x] # BOUNDARY}) = 1
        /\ npws > 0 => (green_edges = {{0, 2}, {1, 2}} /\ red_edges = {})

\* C2 as stated, for a diagram with a designated boundary vertex: the edges of
\* a web are edges of the diagram and none is marked for both 'Z' and 'X'.
C2_Original ==
    (b >= 1 /\ npws > 0) =>
        /\ red_edges \cup green_edges \subseteq oldg.E
        /\ red_edges \cap green_edges = {}

\* C10: every vector of the nullspace is 0 on its first 2b coordinates, so
\* every index i that get_pw looks up has b <= i - b < len(new_order), a key
\* of index_map, and get_pw never fails on a lookup.
C10_IndexInRange ==
    /\ err # "KeyError"
    /\ \A x \in kernel :
          /\ \A i \in DOMAIN x : i < 2 * b => x[i] = 0
          /\ \A i \in Nonzero(x) :
                /\ b <= i - b
                /\ i - b < Len(new_order)
                /\ (i - b) \in DOMAIN index_map

\* C10 witness: get_pw has built a web from a nonzero vector of a diagram
\* with two designated boundary vertices.
C10_Witness ==
    /\ pc = "webs"
    /\ npws >= 1
    /\ b >= 2
    /\ Nonzero(v) # {}
    /\ green_edges \cup red_edges # {}

====
